---------------------------- MODULE Spec2Model ----------------------------
(***************************************************************************)
(* Geosift backend: the aggregation-and-caching pipeline.                  *)
(*                                                                         *)
(*   Backend/services/cache_manager.py   result cache, in-flight registry  *)
(*   Backend/services/aggregator.py      analyze_country, _fetch_and_build *)
(*   Backend/scoring/weighting_engine.py get_weights                       *)
(*   Backend/scoring/scoring_engine.py   score_country                     *)
(*   Backend/services/external_clients.py what a provider call can return  *)
(*                                                                         *)
(* Numbers.  A normalized metric is kept as an integer count of            *)
(* 1/NormUnit (NormUnit = 42000 is a common multiple of the divisors 35,   *)
(* 80000/1000, 1500, 100, 15 and 12 of the normalization formulas), so the *)
(* model's arithmetic is exact where Python's is binary floating point.    *)
(* A weight is num/den with num in thousandths before renormalization and  *)
(* den their sum.  overall_score is kept in tenths, score_country's value  *)
(* in hundredths, sub-scores in units.  round() is round-half-even.        *)
(***************************************************************************)
EXTENDS Integers, Sequences, FiniteSets, TLC

\* Python values: None, a number, a value of another JSON type (a string)
None == [t |-> "none"]
Num(v) == [t |-> "num", v |-> v]
Str == [t |-> "str"]

METRICS ==
    <<"life_expectancy", "gdp_per_capita", "population", "pm25", "pm10",
      "travel_advisory_score", "temperature", "humidity">>

MetricSet == {METRICS[i] : i \in 1..Len(METRICS)}

NormUnit == 35 * 80 * 15

\* maxsize and ttl of country_cache
MAXSIZE == 100
TTL == 3600

(***************************************************************************)
(* round(x, n) on the exact quotient num/den, den > 0: half to even.       *)
(***************************************************************************)
RoundDiv(num, den) ==
    LET q == num \div den
        r == num - q * den
    IN  IF 2 * r > den THEN q + 1
        ELSE IF 2 * r < den THEN q
        ELSE IF q % 2 = 0 THEN q ELSE q + 1

Min(a, b) == IF a <= b THEN a ELSE b
Max(a, b) == IF a >= b THEN a ELSE b

(***************************************************************************)
(* Normalization engine (aggregator.py).  Raw values are integers:         *)
(* life expectancy in years, GDP per capita in USD (multiples of 40),      *)
(* population in persons (multiples of 250000), AQI, advisory score,       *)
(* temperature in tenths of a degree.                                      *)
(***************************************************************************)
_normalize_life_expectancy(value) ==
    IF value = None THEN NormUnit \div 2
    ELSE Max(0, Min(NormUnit, (value.v - 50) * (NormUnit \div 35)))

_normalize_gdp_per_capita(value) ==
    IF value = None THEN NormUnit \div 2
    ELSE Min((value.v * 21) \div 40, NormUnit)

_normalize_population(value) ==
    IF value = None THEN NormUnit \div 2
    ELSE NormUnit - Min((value.v \div 250000) * 7, NormUnit)

_normalize_pm25(value) ==
    IF value = None THEN NormUnit \div 2
    ELSE NormUnit - Min(value.v * (NormUnit \div 100), NormUnit)

_normalize_pm10(value) ==
    IF value = None THEN NormUnit \div 2
    ELSE NormUnit - Min(value.v * (NormUnit \div 100), NormUnit)

\* not the code: the fallback of the other metrics for an absent score
_normalize_travel_advisory_score_half(value) ==
    IF value = None THEN NormUnit \div 2
    ELSE NormUnit - value.v * (NormUnit \div 100)

_normalize_travel_advisory_score(value) ==
    IF value = None THEN NormUnit \div 5
    ELSE NormUnit - value.v * (NormUnit \div 100)

\* the cold band's divisor used for the warm band too
_normalize_temperature_one_divisor(value) ==
    IF value = None THEN NormUnit \div 2
    ELSE IF 150 <= value.v /\ value.v <= 280 THEN NormUnit
    ELSE IF value.v < 150 THEN
        Max(0, NormUnit - (150 - value.v) * (NormUnit \div 150))
    ELSE Max(0, NormUnit - (value.v - 280) * (NormUnit \div 150))

\* value.v is in tenths of a degree: 15 is 150, 28 is 280
_normalize_temperature(value) ==
    IF value = None THEN NormUnit \div 2
    ELSE IF 150 <= value.v /\ value.v <= 280 THEN NormUnit
    ELSE IF value.v < 150 THEN
        Max(0, NormUnit - (150 - value.v) * (NormUnit \div 150))
    ELSE Max(0, NormUnit - (value.v - 280) * (NormUnit \div 120))

_normalize_humidity(value) == NormUnit \div 2

_normalize_metrics(metrics) ==
    [life_expectancy |-> _normalize_life_expectancy(metrics.life_expectancy),
     gdp_per_capita |-> _normalize_gdp_per_capita(metrics.gdp_per_capita),
     population |-> _normalize_population(metrics.population),
     pm25 |-> _normalize_pm25(metrics.pm25),
     pm10 |-> _normalize_pm10(metrics.pm10),
     travel_advisory_score |->
         _normalize_travel_advisory_score(metrics.travel_advisory_score),
     temperature |-> _normalize_temperature(metrics.temperature),
     humidity |-> _normalize_humidity(metrics.humidity)]

(***************************************************************************)
(* Weighting engine (weighting_engine.py).  Tables in hundredths,          *)
(* duration multipliers in tenths, products in thousandths.                *)
(***************************************************************************)
WEIGHT_KEYS ==
    {"life_expectancy", "gdp_per_capita", "population", "pm25",
     "travel_advisory_score", "temperature", "humidity"}

\* not the code in use: the table of the aggregator's unused _get_weights,
\* whose travel advisory weights are lower
BaseWeights_stale(risk_tolerance) ==
    IF risk_tolerance = "low" THEN
        [life_expectancy |-> 20, gdp_per_capita |-> 15, population |-> 5,
         pm25 |-> 20, travel_advisory_score |-> 25, temperature |-> 15,
         humidity |-> 0]
    ELSE IF risk_tolerance = "high" THEN
        [life_expectancy |-> 20, gdp_per_capita |-> 30, population |-> 15,
         pm25 |-> 10, travel_advisory_score |-> 10, temperature |-> 15,
         humidity |-> 0]
    ELSE
        [life_expectancy |-> 20, gdp_per_capita |-> 20, population |-> 10,
         pm25 |-> 15, travel_advisory_score |-> 15, temperature |-> 10,
         humidity |-> 10]

BaseWeights(risk_tolerance) ==
    IF risk_tolerance = "low" THEN
        [life_expectancy |-> 20, gdp_per_capita |-> 15, population |-> 5,
         pm25 |-> 20, travel_advisory_score |-> 35, temperature |-> 15,
         humidity |-> 0]
    ELSE IF risk_tolerance = "high" THEN
        [life_expectancy |-> 20, gdp_per_capita |-> 30, population |-> 15,
         pm25 |-> 10, travel_advisory_score |-> 10, temperature |-> 15,
         humidity |-> 0]
    ELSE
        [life_expectancy |-> 20, gdp_per_capita |-> 20, population |-> 10,
         pm25 |-> 15, travel_advisory_score |-> 25, temperature |-> 10,
         humidity |-> 10]

DurationMultiplier(duration) ==
    IF duration = "short-term" THEN
        [life_expectancy |-> 8, gdp_per_capita |-> 10, population |-> 8,
         pm25 |-> 12, travel_advisory_score |-> 12, temperature |-> 12,
         humidity |-> 11]
    ELSE IF duration = "long-term" THEN
        [life_expectancy |-> 12, gdp_per_capita |-> 12, population |-> 12,
         pm25 |-> 9, travel_advisory_score |-> 9, temperature |-> 8,
         humidity |-> 9]
    ELSE [k \in WEIGHT_KEYS |-> 10]

RECURSIVE SumOver(_, _)
SumOver(f, S) ==
    IF S = {} THEN 0
    ELSE LET x == CHOOSE y \in S : TRUE IN f[x] + SumOver(f, S \ {x})

\* not the code: the weights without the re-normalization by their sum
get_weights_unnormalized(risk_tolerance, duration) ==
    LET base == BaseWeights(risk_tolerance)
        mult == DurationMultiplier(duration)
    IN  [num |-> [k \in WEIGHT_KEYS |-> base[k] * mult[k]], den |-> 1000]

\* get_weights: the mapping is num[k]/den for each key k
get_weights(risk_tolerance, duration) ==
    LET base == BaseWeights(risk_tolerance)
        mult == DurationMultiplier(duration)
        w == [k \in WEIGHT_KEYS |-> base[k] * mult[k]]
        total_weight == SumOver(w, WEIGHT_KEYS)
    IN  [num |-> w, den |-> IF total_weight > 0 THEN total_weight ELSE 1000]

(***************************************************************************)
(* Scoring engine (scoring_engine.py): round(sum(value*weight) * 100, 2),  *)
(* in hundredths.  weights.get(name, 0.0) gives 0 for a metric without a   *)
(* weight entry.                                                           *)
(***************************************************************************)
\* a metric without a weight entry weighted 1.0
WeightNum_default_one(weights, name) ==
    IF name \in DOMAIN weights.num THEN weights.num[name] ELSE weights.den

WeightNum(weights, name) ==
    IF name \in DOMAIN weights.num THEN weights.num[name] ELSE 0

score_country(metrics, weights) ==
    LET prod == [m \in DOMAIN metrics |-> metrics[m] * WeightNum(weights, m)]
        score == SumOver(prod, DOMAIN metrics)
    IN  RoundDiv(score * 5, 21 * weights.den)

(***************************************************************************)
(* Bounds of the model.                                                    *)
(***************************************************************************)
\* analyze_country calls issued in one behaviour
MaxCalls == 3
\* the clock runs to MaxHalfTTLs * (TTL / 2) seconds
MaxHalfTTLs == 2

CallIds == 1..MaxCalls
MaxNow == MaxHalfTTLs * (TTL \div 2)
\* seconds that pass before a step that reads the clock
Elapsed == {0, TTL \div 2}

VARIABLES
    now,                  \* the cache's timer (time.monotonic), in seconds
    country_cache,        \* TTLCache: <<[key, value, expires]>> in link order
    in_flight_requests,   \* dict: cache key -> task
    heap,                 \* the result dicts that exist, by object id
    task,                 \* the _fetch_and_build tasks, by id
    call,                 \* the analyze_country calls, by id
    ready,                \* event loop: wakeups of the calls awaiting a task
    request               \* the /api/analyze request being handled

vars ==
    <<now, country_cache, in_flight_requests, heap, task, call, ready, request>>

(***************************************************************************)
(* cache_manager.py.  TTLCache (cachetools): get() treats an entry whose   *)
(* expiry time has been reached as absent; __setitem__ first drops every   *)
(* expired entry, pops the oldest link while the cache is full and the key *)
(* is new, and (re)links the key at the end with expires = time + ttl.     *)
(***************************************************************************)
CacheKeys(cache) == {cache[i].key : i \in 1..Len(cache)}

\* not the code: a lookup that ignores the expiry time
TTLCacheGet_no_expiry(cache, key, time) ==
    LET held == {i \in 1..Len(cache) : cache[i].key = key}
    IN  IF held = {} THEN None ELSE cache[CHOOSE i \in held : TRUE].value

TTLCacheGet(cache, key, time) ==
    LET live == {i \in 1..Len(cache) :
                    cache[i].key = key /\ time < cache[i].expires}
    IN  IF live = {} THEN None ELSE cache[CHOOSE i \in live : TRUE].value

\* not the code: an insertion that never evicts
TTLCacheSet_no_eviction(cache, key, value, time) ==
    LET Live(e) == time < e.expires
        Other(e) == e.key # key
    IN  Append(SelectSeq(SelectSeq(cache, Live), Other),
               [key |-> key, value |-> value, expires |-> time + TTL])

TTLCacheSet(cache, key, value, time) ==
    LET Live(e) == time < e.expires
        Other(e) == e.key # key
        unexpired == SelectSeq(cache, Live)
        room == IF key \notin CacheKeys(unexpired) /\ Len(unexpired) >= MAXSIZE
                THEN Tail(unexpired) ELSE unexpired
    IN  Append(SelectSeq(room, Other),
               [key |-> key, value |-> value, expires |-> time + TTL])

\* not the code: a lookup that finds nothing
get_cached_nothing(country_code) == None

get_cached(country_code) == TTLCacheGet(country_cache, country_code, now')

set_cache(cache, country_code, data, time) ==
    IF data # None THEN TTLCacheSet(cache, country_code, data, time)
    ELSE cache

\* not the code: a lookup that never sees a registered handle
is_in_flight_never(country_code) == FALSE

\* not the code: a lookup that only sees handles of finished computations
is_in_flight_finished_only(country_code) ==
    /\ country_code \in DOMAIN in_flight_requests
    /\ task[in_flight_requests[country_code]].state \in {"done", "failed"}

is_in_flight(country_code) == country_code \in DOMAIN in_flight_requests

get_in_flight(country_code) ==
    IF country_code \in DOMAIN in_flight_requests
    THEN in_flight_requests[country_code] ELSE None

set_in_flight(registry, country_code, t) ==
    [k \in DOMAIN registry \cup {country_code} |->
        IF k = country_code THEN t ELSE registry[k]]

\* not the code: a removal that leaves the handle registered
remove_in_flight_skipped(registry, country_code) == registry

remove_in_flight(registry, country_code) ==
    IF country_code \in DOMAIN registry
    THEN [k \in DOMAIN registry \ {country_code} |-> registry[k]]
    ELSE registry

(***************************************************************************)
(* _fetch_and_build (aggregator.py).  A dict is a function on its keys;    *)
(* the empty dict is the function with no key.                             *)
(***************************************************************************)
EmptyDict == [k \in {} |-> None]

DictGet(d, k) == IF k \in DOMAIN d THEN d[k] ELSE None

\* the four calls of asyncio.gather, in argument order
PROVIDERS == <<"worldbank", "travel", "weather", "aqi">>
ProviderSet == {PROVIDERS[i] : i \in 1..Len(PROVIDERS)}

\* what gather(return_exceptions=True) holds for one call
Pending == [kind |-> "pending"]
Exc == [kind |-> "exc"]
Ok(data) == [kind |-> "ok", data |-> data]

\* results[i] if not isinstance(results[i], Exception) else {}
DataOrEmpty(res) == IF res.kind = "exc" THEN EmptyDict ELSE res.data

RawMetrics(population, results) ==
    LET world_bank_metrics_data == DataOrEmpty(results["worldbank"])
        travel_advisory_data == DataOrEmpty(results["travel"])
        weather_data == DataOrEmpty(results["weather"])
        aqi_data == DataOrEmpty(results["aqi"])
    IN  [life_expectancy |-> DictGet(world_bank_metrics_data, "life_expectancy"),
         gdp_per_capita |-> DictGet(world_bank_metrics_data, "gdp_per_capita"),
         population |-> population,
         pm25 |-> DictGet(aqi_data, "aqi"),
         pm10 |-> DictGet(aqi_data, "aqi"),
         travel_advisory_score |-> DictGet(travel_advisory_data, "advisory_score"),
         temperature |-> DictGet(weather_data, "temperature"),
         humidity |-> None]

\* for metric_name, value in raw_metrics.items(): if value is None: append
\* not the code: a falsiness test, which takes a value of 0 for absent
IsMissing_falsy(value) == value = None \/ value = Num(0)

IsMissing(value) == value = None

MissingMetrics(raw_metrics) ==
    LET Missing(m) == IsMissing(raw_metrics[m]) IN SelectSeq(METRICS, Missing)

\* value / 1_500_000_000 raises TypeError for a population that is no number
NormalizeRaises(raw_metrics) == raw_metrics.population = Str

BuildResult(country_code, risk_tolerance, duration, debug_mode, profile, raw_metrics) ==
    LET normalized_scores == _normalize_metrics(raw_metrics)
        travel_risk_sub_score ==
            RoundDiv((NormUnit - normalized_scores.travel_advisory_score) * 100,
                     NormUnit)
        health_infra_score ==
            RoundDiv((normalized_scores.life_expectancy
                      + normalized_scores.gdp_per_capita) * 100, 2 * NormUnit)
        env_stability_score ==
            RoundDiv((normalized_scores.pm25 + normalized_scores.pm10
                      + normalized_scores.temperature) * 100, 3 * NormUnit)
        weights == get_weights(risk_tolerance, duration)
        overall_score == RoundDiv(score_country(normalized_scores, weights), 10)
        result ==
            [country_code |-> country_code,
             country_name |-> profile.country_name,
             overall_score |-> overall_score,
             sub_scores |-> [travel_risk |-> travel_risk_sub_score,
                             health_infra |-> health_infra_score,
                             env_stability |-> env_stability_score],
             explanation |-> <<overall_score, risk_tolerance, duration,
                               travel_risk_sub_score, health_infra_score,
                               env_stability_score>>]
        debug_analysis ==
            [weights_used |-> weights,
             raw_metrics |-> raw_metrics,
             normalized_metrics |-> normalized_scores]
    IN  IF debug_mode
        THEN [k \in DOMAIN result \cup {"debug_analysis"} |->
                 IF k = "debug_analysis" THEN debug_analysis ELSE result[k]]
        ELSE result

\* the return value of the coroutine: (result, is_cache_hit, missing_metrics)
Tuple3(result, is_cache_hit, missing_metrics) ==
    [result |-> result, is_cache_hit |-> is_cache_hit,
     missing_metrics |-> missing_metrics]

\* a reference to the dict object obj of the heap
Ref(obj) == [kind |-> "dict", obj |-> obj]

\* step 1: the outcome of the profile fetch decides whether the pipeline aborts
\* not the code: only the first test, `if not country_profile_data`
IdentityAbort_profile_only(profile) == profile = EmptyDict

IdentityAbort(profile) == profile = EmptyDict \/ profile.iso2 = None

IdentityMarker(profile) ==
    IF profile = EmptyDict THEN <<"country_profile">> ELSE <<"iso2_code">>

(***************************************************************************)
(* What the environment can answer.                                        *)
(* fetch_country_profile always returns a dict: on any failure the one     *)
(* with iso2 = None; on success cca2 and population are passed through as  *)
(* the provider sent them.  Each of the four metric fetches returns a dict *)
(* of optional numbers, or ends with an exception that gather collects.    *)
(***************************************************************************)
Profile(country_code, iso2, population) ==
    [country_name |-> country_code, iso2 |-> iso2, population |-> population]

ProfileChoices ==
    {<<None, None>>, <<Str, None>>, <<Str, Num(67000000)>>, <<Str, Str>>}

WorldBankData(le, gdp) == [life_expectancy |-> le, gdp_per_capita |-> gdp]

Outcomes(p) ==
    CASE p = "worldbank" ->
            {Exc, Ok(WorldBankData(None, None)),
             Ok(WorldBankData(Num(82), Num(40000)))}
      [] p = "travel" -> {Exc, Ok([advisory_score |-> None]),
                          Ok([advisory_score |-> Num(25)])}
      [] p = "weather" -> {Exc, Ok([temperature |-> None]),
                           Ok([temperature |-> Num(0)])}
      [] p = "aqi" -> {Exc, Ok([aqi |-> None]), Ok([aqi |-> Num(40)])}

\* the (country_code, risk_tolerance, duration) triples the calls use
ArgChoices ==
    {<<"FRA", "low", "short-term">>, <<"JPN", "moderate", "long-term">>}

\* the arguments (with debug_mode) of the calls in Spec
SpecArgChoices ==
    {<<"FRA", "low", "short-term", FALSE>>, <<"JPN", "moderate", "long-term", TRUE>>}

(***************************************************************************)
(* State.                                                                  *)
(***************************************************************************)
\* calls[p] counts the calls the coroutine has made to fetch_country_profile
\* (p = "profile") and to each of the four gathered fetches
NoTask ==
    [state |-> "none", profile |-> None, results |-> EmptyDict,
     ret |-> None, waiters |-> <<>>,
     calls |-> [p \in {"profile"} \cup ProviderSet |-> 0]]

\* no /api/analyze request has been received
NoRequest ==
    [pc |-> "idle", countries |-> <<>>, risk_tolerance |-> "", duration |-> "",
     debug |-> FALSE, response |-> None, received |-> 0]

NoCall ==
    [pc |-> "idle", country_code |-> "", risk_tolerance |-> "",
     duration |-> "", debug_mode |-> FALSE, role |-> "none", awaits |-> 0,
     ret |-> None, issued_at |-> 0, ended_before |-> {}]

Init ==
    /\ now = 0
    /\ country_cache = <<>>
    /\ in_flight_requests = EmptyDict
    /\ heap = EmptyDict
    /\ task = [t \in CallIds |-> NoTask]
    /\ call = [c \in CallIds |-> NoCall]
    /\ ready = <<>>
    /\ request = NoRequest

\* cache_key = f"{country_code}_{risk_tolerance}_{duration}"
CacheKey(country_code, risk_tolerance, duration) ==
    country_code \o "_" \o risk_tolerance \o "_" \o duration

KeyOf(c) ==
    CacheKey(call[c].country_code, call[c].risk_tolerance, call[c].duration)

Ended(c) == call[c].pc \in {"returned", "raised"}

TaskFinished(t) == task[t].state \in {"done", "failed", "cancelled"}

\* the value `await task` gives a call other than the task's creator, which
\* analyze_country returns as the first component of its own tuple
AwaitedValue(t) ==
    [kind |-> "tuple", result |-> task[t].ret.result,
     is_cache_hit |-> task[t].ret.is_cache_hit,
     missing_metrics |-> task[t].ret.missing_metrics]

Returned(c, ret) == [call[c] EXCEPT !.pc = "returned", !.ret = ret]

\* not the code: the exception swallowed, the call returning normally
Raised_swallowed(c) == [call[c] EXCEPT !.pc = "returned"]

Raised(c) == [call[c] EXCEPT !.pc = "raised"]

(***************************************************************************)
(* analyze_country, from its entry to its first suspension (or its return  *)
(* when it does not suspend): lines 269-287.                               *)
(***************************************************************************)
AnalyzeCountry(c, country_code, risk_tolerance, duration, debug_mode, dt) ==
    LET cache_key == CacheKey(country_code, risk_tolerance, duration)
        cached_result == get_cached(cache_key)
        entered ==
            [call[c] EXCEPT !.country_code = country_code,
                            !.risk_tolerance = risk_tolerance,
                            !.duration = duration,
                            !.debug_mode = debug_mode,
                            !.issued_at = now',
                            !.ended_before = {d \in CallIds : Ended(d)}]
    IN
    /\ call[c].pc = "idle"
    /\ \A d \in CallIds : d < c => call[d].pc # "idle"
    /\ dt = 0 \/ now + dt <= MaxNow
    /\ now' = now + dt
    /\ UNCHANGED request
    /\ IF cached_result # None THEN
           \* 1: cache hit
           /\ call' = [call EXCEPT ![c] =
                  [entered EXCEPT !.pc = "returned", !.role = "hit",
                                  !.ret = Tuple3(cached_result, TRUE, <<>>)]]
           /\ UNCHANGED <<country_cache, in_flight_requests, heap, task, ready>>
       ELSE IF is_in_flight(cache_key) THEN
           \* 2: await get_in_flight(cache_key); a finished task does not suspend
           LET t == get_in_flight(cache_key) IN
           /\ IF task[t].state = "done" THEN
                  /\ call' = [call EXCEPT ![c] =
                         [entered EXCEPT !.pc = "returned", !.role = "waiter",
                                         !.awaits = t,
                                         !.ret = Tuple3(AwaitedValue(t), FALSE, <<>>)]]
                  /\ task' = task
              ELSE IF task[t].state \in {"failed", "cancelled"} THEN
                  /\ call' = [call EXCEPT ![c] =
                         [entered EXCEPT !.pc = "raised", !.role = "waiter",
                                         !.awaits = t]]
                  /\ task' = task
              ELSE
                  /\ call' = [call EXCEPT ![c] =
                         [entered EXCEPT !.pc = "awaiting", !.role = "waiter",
                                         !.awaits = t]]
                  /\ task' = [task EXCEPT ![t].waiters = Append(@, c)]
           /\ UNCHANGED <<country_cache, in_flight_requests, heap, ready>>
       ELSE
           \* 3: create_task, set_in_flight, await task
           /\ task' = [task EXCEPT ![c] =
                  [NoTask EXCEPT !.state = "profile", !.waiters = <<c>>,
                                 !.calls["profile"] = @ + 1]]
           /\ in_flight_requests' = set_in_flight(in_flight_requests, cache_key, c)
           /\ call' = [call EXCEPT ![c] =
                  [entered EXCEPT !.pc = "awaiting", !.role = "owner",
                                  !.awaits = c]]
           /\ UNCHANGED <<country_cache, heap, ready>>

(***************************************************************************)
(* The task running _fetch_and_build.  When it finishes, the event loop    *)
(* schedules the wakeups of the calls awaiting it in the order in which    *)
(* they began to wait.                                                     *)
(***************************************************************************)
HeapPut(h, obj, d) ==
    [o \in DOMAIN h \cup {obj} |-> IF o = obj THEN d ELSE h[o]]

\* lines 27-39: the profile fetch returns
ProfileDone(t, choice) ==
    LET profile == Profile(call[t].country_code, choice[1], choice[2]) IN
    /\ task[t].state = "profile"
    /\ IF IdentityAbort(profile) THEN
           /\ heap' = HeapPut(heap, t, EmptyDict)
           /\ task' = [task EXCEPT ![t].state = "done",
                                   ![t].profile = profile,
                                   ![t].ret = Tuple3(Ref(t), FALSE,
                                                     IdentityMarker(profile))]
           /\ ready' = ready \o task[t].waiters
       ELSE
           /\ task' = [task EXCEPT ![t].state = "gather",
                                   ![t].profile = profile,
                                   ![t].results = [p \in ProviderSet |-> Pending],
                                   ![t].calls =
                                       [p \in DOMAIN @ |->
                                           IF p \in ProviderSet THEN @[p] + 1
                                           ELSE @[p]]]
           /\ UNCHANGED <<heap, ready>>
    /\ UNCHANGED <<now, country_cache, in_flight_requests, call, request>>

\* not the code: a fetch that raised is called a second time
FetchDone_retry(t, p, outcome) ==
    /\ task[t].state = "gather"
    /\ task[t].results[p] = Pending
    /\ task' = IF outcome = Exc /\ task[t].calls[p] < 2
               THEN [task EXCEPT ![t].calls[p] = @ + 1]
               ELSE [task EXCEPT ![t].results[p] = outcome]
    /\ UNCHANGED <<now, country_cache, in_flight_requests, heap, call, ready,
                   request>>

\* lines 42-48: one of the four gathered calls returns or raises
FetchDone(t, p, outcome) ==
    /\ task[t].state = "gather"
    /\ task[t].results[p] = Pending
    /\ task' = [task EXCEPT ![t].results[p] = outcome]
    /\ UNCHANGED <<now, country_cache, in_flight_requests, heap, call, ready,
                   request>>

\* gather gives its list once every call has returned or raised
GatherDone(results) == \A p \in ProviderSet : results[p] # Pending

\* return_exceptions=True: an exception of a call is an item of the list,
\* and gather itself raises nothing
\* not the code: gather without return_exceptions, which re-raises the first
\* exception of a provider
GatherRaises_first_exception(results) ==
    \E p \in ProviderSet : results[p] = Exc

GatherRaises(results) == FALSE

\* not the code: a task that ends without waking the calls awaiting it
Finish_no_wakeup(t, results) ==
    LET raw_metrics == RawMetrics(task[t].profile.population, results) IN
    /\ IF GatherRaises(results) \/ NormalizeRaises(raw_metrics) THEN
           /\ task' = [task EXCEPT ![t].state = "failed",
                                   ![t].results = results]
           /\ heap' = heap
       ELSE
           /\ heap' = HeapPut(heap, t,
                  BuildResult(call[t].country_code, call[t].risk_tolerance,
                              call[t].duration, call[t].debug_mode,
                              task[t].profile, raw_metrics))
           /\ task' = [task EXCEPT ![t].state = "done",
                                   ![t].results = results,
                                   ![t].ret = Tuple3(Ref(t), FALSE,
                                                     MissingMetrics(raw_metrics))]
    /\ ready' = ready
    /\ UNCHANGED <<now, country_cache, in_flight_requests, call, request>>

\* lines 50-136: the rest of the coroutine, from gather's list `results`
Finish(t, results) ==
    LET raw_metrics == RawMetrics(task[t].profile.population, results) IN
    /\ IF GatherRaises(results) \/ NormalizeRaises(raw_metrics) THEN
           /\ task' = [task EXCEPT ![t].state = "failed",
                                   ![t].results = results]
           /\ heap' = heap
       ELSE
           /\ heap' = HeapPut(heap, t,
                  BuildResult(call[t].country_code, call[t].risk_tolerance,
                              call[t].duration, call[t].debug_mode,
                              task[t].profile, raw_metrics))
           /\ task' = [task EXCEPT ![t].state = "done",
                                   ![t].results = results,
                                   ![t].ret = Tuple3(Ref(t), FALSE,
                                                     MissingMetrics(raw_metrics))]
    /\ ready' = ready \o task[t].waiters
    /\ UNCHANGED <<now, country_cache, in_flight_requests, call, request>>

\* not the code: the coroutine goes on before gather has every answer,
\* taking a fetch that has not answered for one that raised
Build_before_gather(t) ==
    /\ task[t].state = "gather"
    /\ Finish(t, [p \in ProviderSet |->
                     IF task[t].results[p] = Pending THEN Exc
                     ELSE task[t].results[p]])

Build(t) ==
    /\ task[t].state = "gather"
    /\ GatherDone(task[t].results)
    /\ Finish(t, task[t].results)

\* lines 42-136 in one step: the four calls answer `results` and the
\* coroutine runs to its end (no shared state is read or written in between)
Gathered(t, results) ==
    /\ task[t].state = "gather"
    /\ \A p \in ProviderSet : task[t].results[p] = Pending
    /\ Finish(t, results)

(***************************************************************************)
(* analyze_country resumed after `await`: lines 278 and 287-291.           *)
(***************************************************************************)
\* not the code: the waiting path inside the try, so that a waiter removes
\* the handle of its key too
Resume_waiter_cleans(c) ==
    LET t == call[c].awaits
        cache_key == KeyOf(c)
    IN
    /\ ready # <<>>
    /\ Head(ready) = c
    /\ ready' = Tail(ready)
    /\ IF call[c].role = "owner" THEN
           /\ IF task[t].state = "done" THEN
                  /\ country_cache' =
                         set_cache(country_cache, cache_key, task[t].ret.result, now)
                  /\ call' = [call EXCEPT ![c] = Returned(c, task[t].ret)]
              ELSE
                  /\ country_cache' = country_cache
                  /\ call' = [call EXCEPT ![c] = Raised(c)]
           \* finally
           /\ in_flight_requests' = remove_in_flight(in_flight_requests, cache_key)
       ELSE
           /\ IF task[t].state = "done" THEN
                  call' = [call EXCEPT ![c] =
                      Returned(c, Tuple3(AwaitedValue(t), FALSE, <<>>))]
              ELSE
                  call' = [call EXCEPT ![c] = Raised(c)]
           /\ in_flight_requests' = remove_in_flight(in_flight_requests, cache_key)
           /\ UNCHANGED country_cache
    /\ UNCHANGED <<now, heap, task, request>>

Resume(c) ==
    LET t == call[c].awaits
        cache_key == KeyOf(c)
    IN
    /\ ready # <<>>
    /\ Head(ready) = c
    /\ ready' = Tail(ready)
    /\ IF call[c].role = "owner" THEN
           /\ IF task[t].state = "done" THEN
                  /\ country_cache' =
                         set_cache(country_cache, cache_key, task[t].ret.result, now)
                  /\ call' = [call EXCEPT ![c] = Returned(c, task[t].ret)]
              ELSE
                  /\ country_cache' = country_cache
                  /\ call' = [call EXCEPT ![c] = Raised(c)]
           \* finally
           /\ in_flight_requests' = remove_in_flight(in_flight_requests, cache_key)
       ELSE
           /\ IF task[t].state = "done" THEN
                  call' = [call EXCEPT ![c] =
                      Returned(c, Tuple3(AwaitedValue(t), FALSE, <<>>))]
              ELSE
                  call' = [call EXCEPT ![c] = Raised(c)]
           /\ UNCHANGED <<country_cache, in_flight_requests>>
    /\ UNCHANGED <<now, heap, task, request>>

(***************************************************************************)
(* A call suspended in `await task` (line 287) or in                       *)
(* `await get_in_flight(cache_key)` (line 278) is cancelled.  Task.cancel  *)
(* of the caller cancels the future the caller awaits, which is the        *)
(* _fetch_and_build task itself (it is not shielded): CancelledError is    *)
(* thrown into the coroutine at its await, which no handler of the         *)
(* pipeline catches, the task ends cancelled and every call awaiting it is *)
(* woken with CancelledError.                                              *)
(***************************************************************************)
CancelledBy(c) == [t |-> "cancelled", by |-> c]

Cancel(c) ==
    LET t == call[c].awaits IN
    /\ call[c].pc = "awaiting"
    /\ task[t].state \in {"profile", "gather"}
    /\ task' = [task EXCEPT ![t].state = "cancelled", ![t].ret = CancelledBy(c)]
    /\ ready' = ready \o task[t].waiters
    /\ UNCHANGED <<now, country_cache, in_flight_requests, heap, call, request>>

\* the answers of the four calls of one gather, in Spec: one returns values,
\* one raises, one returns an absent value
SpecGatherChoices ==
    {[worldbank |-> Ok(WorldBankData(Num(82), Num(40000))),
      travel |-> Exc,
      weather |-> Ok([temperature |-> None]),
      aqi |-> Ok([aqi |-> Num(40)])]}

SpecProfileChoices == {<<None, None>>, <<Str, Num(67000000)>>, <<Str, Str>>}

Next ==
    \/ \E c \in CallIds, a \in SpecArgChoices, dt \in Elapsed :
           AnalyzeCountry(c, a[1], a[2], a[3], a[4], dt)
    \/ \E t \in CallIds, choice \in SpecProfileChoices : ProfileDone(t, choice)
    \/ \E t \in CallIds, results \in SpecGatherChoices : Gathered(t, results)
    \/ \E c \in CallIds : Resume(c)

Spec == Init /\ [][Next]_vars

(***************************************************************************)
(* One call, every answer of every provider, each fetch a step of its own. *)
(***************************************************************************)
NextPipeline ==
    \/ \E a \in ArgChoices, debug_mode \in BOOLEAN :
           AnalyzeCountry(1, a[1], a[2], a[3], debug_mode, 0)
    \/ \E choice \in ProfileChoices : ProfileDone(1, choice)
    \/ \E p \in ProviderSet : \E outcome \in Outcomes(p) : FetchDone(1, p, outcome)
    \/ Build(1)
    \/ Resume(1)

SpecPipeline == Init /\ [][NextPipeline]_vars

(***************************************************************************)
(* The calls of Spec, any of which may be cancelled while it waits.        *)
(***************************************************************************)
NextCancel ==
    \/ Next
    \/ \E c \in CallIds : Cancel(c)

SpecCancel == Init /\ [][NextCancel]_vars

(***************************************************************************)
(* One key, with the cache's timer running past the entry's expiry between *)
(* the steps.                                                              *)
(***************************************************************************)
\* the timer runs to TTL + MaxOverTTL seconds
MaxOverTTL == 2

\* seconds by which the timer advances in one step
Ticks == {TTL \div 2, TTL \div 2 + 1}

\* time.monotonic advances
Tick(dt) ==
    /\ now + dt <= TTL + MaxOverTTL
    /\ now' = now + dt
    /\ UNCHANGED <<country_cache, in_flight_requests, heap, task, call, ready,
                   request>>

NextExpiry ==
    \/ \E c \in CallIds : AnalyzeCountry(c, "FRA", "low", "short-term", FALSE, 0)
    \/ \E t \in CallIds, choice \in SpecProfileChoices : ProfileDone(t, choice)
    \/ \E t \in CallIds, results \in SpecGatherChoices : Gathered(t, results)
    \/ \E c \in CallIds : Resume(c)
    \/ \E dt \in Ticks : Tick(dt)

SpecExpiry == Init /\ [][NextExpiry]_vars

(***************************************************************************)
(* The cache filled to its capacity: set_cache called once a second, with  *)
(* a key not yet used or, once the cache is full, with its oldest key.     *)
(***************************************************************************)
\* insertions made after the MAXSIZE that fill the cache
MaxOverflow == 3

Letters == <<"A", "B", "C", "D", "E">>

LetterAt(n) == Letters[(n % Len(Letters)) + 1]

\* the n-th of the keys used: a three-letter country code with low, short-term
KeyAt(n) ==
    CacheKey(LetterAt(n \div (Len(Letters) * Len(Letters)))
                 \o LetterAt(n \div Len(Letters)) \o LetterAt(n),
             "low", "short-term")

\* set_cache(country_code, data) as the timer reads now + 1
CachePut(country_code, data) ==
    /\ now < MAXSIZE + MaxOverflow
    /\ now' = now + 1
    /\ country_cache' = set_cache(country_cache, country_code, data, now')
    /\ UNCHANGED <<in_flight_requests, heap, task, call, ready, request>>

NextCache ==
    \/ CachePut(KeyAt(now + 1), Ref(now + 1))
    \/ /\ Len(country_cache) >= MAXSIZE
       /\ CachePut(country_cache[1].key, Ref(now + 1))

SpecCache == Init /\ [][NextCache]_vars

(***************************************************************************)
(* One debug call for every (risk_tolerance, duration) and a range of the  *)
(* values the providers can answer: each fetch converts what the provider  *)
(* sent with float() and checks no range; the advisory score is level / 4  *)
(* * 100 for the integer level read from the feed.                         *)
(***************************************************************************)
RISK_TOLERANCES == {"low", "moderate", "high"}

DURATIONS == {"short-term", "long-term"}

LifeExpectancies == {None, Num(40), Num(50), Num(67), Num(85), Num(100)}

GdpsPerCapita == {None, Num(-40000), Num(0), Num(40000), Num(80000), Num(120000)}

\* levels 0 to 5 of the feed
AdvisoryScores == {None, Num(0), Num(25), Num(50), Num(75), Num(100), Num(125)}

\* tenths of a degree: -40, 0, 7.5, 14.9, 15, 21.5, 28, 28.1, 34, 40, 60
Temperatures ==
    {None, Num(-400), Num(0), Num(75), Num(149), Num(150), Num(215),
     Num(280), Num(281), Num(340), Num(400), Num(600)}

Aqis == {None, Num(0), Num(40), Num(100), Num(150)}

Populations ==
    {None, Num(0), Num(67000000), Num(1500000000), Num(2000000000)}

Answers(le, gdp, adv, temp, aqi) ==
    [worldbank |-> Ok(WorldBankData(le, gdp)),
     travel |-> Ok([advisory_score |-> adv]),
     weather |-> Ok([temperature |-> temp]),
     aqi |-> Ok([aqi |-> aqi])]

\* every value of one metric, the other metrics absent
ScoringGatherChoices ==
    {Answers(le, None, None, None, None) : le \in LifeExpectancies}
    \cup {Answers(None, gdp, None, None, None) : gdp \in GdpsPerCapita}
    \cup {Answers(None, None, adv, None, None) : adv \in AdvisoryScores}
    \cup {Answers(None, None, None, temp, None) : temp \in Temperatures}
    \cup {Answers(None, None, None, None, aqi) : aqi \in Aqis}

\* analyze_country takes any string: one that is no tolerance level
ScoringRiskTolerances == RISK_TOLERANCES \cup {"extreme"}

NextScoring ==
    \/ \E risk_tolerance \in ScoringRiskTolerances, duration \in DURATIONS :
           AnalyzeCountry(1, "FRA", risk_tolerance, duration, TRUE, 0)
    \/ \E population \in Populations : ProfileDone(1, <<Str, population>>)
    \/ \E results \in ScoringGatherChoices : Gathered(1, results)
    \/ Resume(1)

SpecScoring == Init /\ [][NextScoring]_vars

(***************************************************************************)
(* The calls of Spec at one time, under the scheduling of the event loop:  *)
(* every provider call answers in the end (the client has a timeout), so   *)
(* each pipeline step is taken once it can be, and the event loop runs     *)
(* every call it has scheduled.                                            *)
(***************************************************************************)
ProfileAnswers(t) == \E choice \in SpecProfileChoices : ProfileDone(t, choice)

GatherAnswers(t) == \E results \in SpecGatherChoices : Gathered(t, results)

NextLive ==
    \/ \E c \in CallIds, a \in SpecArgChoices :
           AnalyzeCountry(c, a[1], a[2], a[3], a[4], 0)
    \/ \E t \in CallIds : ProfileAnswers(t)
    \/ \E t \in CallIds : GatherAnswers(t)
    \/ \E c \in CallIds : Resume(c)

\* GatherAnswers(t) can be taken: the guard of Gathered
GatherEnabled(t) ==
    /\ task[t].state = "gather"
    /\ \A p \in ProviderSet : task[t].results[p] = Pending

\* weak fairness of GatherAnswers(t), with its enabling condition written
\* out as GatherEnabled(t)
GatherFair(t) ==
    []<>(~GatherEnabled(t)) \/ []<><<GatherAnswers(t)>>_vars

Fairness ==
    \A t \in CallIds :
        /\ WF_vars(ProfileAnswers(t))
        /\ GatherFair(t)
        /\ WF_vars(Resume(t))

SpecLive == Init /\ [][NextLive]_vars /\ Fairness

(***************************************************************************)
(* Calls of one key that differ in their debug flag.                       *)
(***************************************************************************)
NextDebug ==
    \/ \E c \in CallIds, debug_mode \in BOOLEAN :
           AnalyzeCountry(c, "FRA", "low", "short-term", debug_mode, 0)
    \/ \E t \in CallIds, choice \in SpecProfileChoices : ProfileDone(t, choice)
    \/ \E t \in CallIds, results \in SpecGatherChoices : Gathered(t, results)
    \/ \E c \in CallIds : Resume(c)

SpecDebug == Init /\ [][NextDebug]_vars

(***************************************************************************)
(* score_country called on its own: any mapping of some metrics to values, *)
(* any weights.  The heap keeps the arguments and the value returned.      *)
(***************************************************************************)
ScoredNames == {"life_expectancy", "pm10", "humidity"}

\* -0.25, 0, 0.5 and 1
ScoredValues == {0 - NormUnit \div 4, 0, NormUnit \div 2, NormUnit}

MetricsChoices ==
    UNION {[names -> ScoredValues] : names \in SUBSET ScoredNames}

NoWeights == [num |-> EmptyDict, den |-> 1000]

WeightsChoices ==
    {get_weights(risk_tolerance, duration) :
         risk_tolerance \in RISK_TOLERANCES, duration \in DURATIONS}
    \cup {NoWeights}

ScoreCountry(metrics, weights) ==
    /\ heap' = HeapPut(heap, 1, [metrics |-> metrics, weights |-> weights,
                                 score |-> score_country(metrics, weights)])
    /\ UNCHANGED <<now, country_cache, in_flight_requests, task, call, ready,
                   request>>

NextScoreCountry ==
    \E metrics \in MetricsChoices, weights \in WeightsChoices :
        ScoreCountry(metrics, weights)

SpecScoreCountry == Init /\ [][NextScoreCountry]_vars

(***************************************************************************)
(* server.py: the handler of POST /api/analyze.  It creates one            *)
(* analyze_country coroutine per country of the request, gathers them      *)
(* (return_exceptions=True) and builds the response from what they         *)
(* returned.  The result dicts it handles are the objects analyze_country  *)
(* returned, which are also the objects the cache holds.                   *)
(***************************************************************************)
DictSet(d, k, v) == [x \in DOMAIN d \cup {k} |-> IF x = k THEN v ELSE d[x]]

DictPop(d, k) == [x \in DOMAIN d \ {k} |-> d[x]]

\* raw_results[i]: what gather holds for the i-th coroutine
RawResult(i) == IF call[i].pc = "raised" THEN Exc ELSE call[i].ret

\* `not result_dict`: an empty dict is falsy, a 3-tuple is not
Falsy(h, result_dict) ==
    result_dict.kind = "dict" /\ h[result_dict.obj] = EmptyDict

\* `"debug_analysis" in result_dict`: a key of the dict; no item of a tuple
\* equals the string
HasDebugAnalysis(h, result_dict) ==
    result_dict.kind = "dict" /\ "debug_analysis" \in DOMAIN h[result_dict.obj]

\* the state of the handler before its loop over raw_results (lines 94-98)
LoopStart ==
    [heap |-> heap, final_results |-> <<>>, cache_hits |-> <<>>,
     cache_misses |-> <<>>, all_missing_metrics |-> <<>>,
     debug_analyses |-> EmptyDict]

\* lines 100-127: the loop over raw_results[1..i]
RECURSIVE CollectResults(_)
CollectResults(i) ==
    IF i = 0 THEN LoopStart
    ELSE
      LET st == CollectResults(i - 1)
          country_code == request.countries[i]
          res_tuple == RawResult(i)
          skipped ==
              [st EXCEPT !.all_missing_metrics = Append(@, country_code)]
      IN
      IF res_tuple = Exc THEN skipped
      ELSE
        LET result_dict == res_tuple.result
            counted ==
                [st EXCEPT
                   !.cache_hits =
                       IF res_tuple.is_cache_hit THEN Append(@, country_code)
                       ELSE @,
                   !.cache_misses =
                       IF res_tuple.is_cache_hit THEN @
                       ELSE Append(@, country_code),
                   !.all_missing_metrics = @ \o res_tuple.missing_metrics]
        IN
        IF Falsy(st.heap, result_dict) THEN skipped
        ELSE IF request.debug /\ HasDebugAnalysis(st.heap, result_dict) THEN
          LET obj == result_dict.obj
              debug_analysis ==
                  DictSet(st.heap[obj].debug_analysis, "pre_sorted_score",
                          st.heap[obj].overall_score)
          IN  [counted EXCEPT
                 !.heap = DictSet(@, obj, DictPop(st.heap[obj], "debug_analysis")),
                 !.debug_analyses = DictSet(@, country_code, debug_analysis),
                 !.final_results = Append(@, result_dict)]
        ELSE [counted EXCEPT !.final_results = Append(@, result_dict)]

\* x.get("overall_score", 0), the sort key
ScoreOf(h, result) ==
    IF "overall_score" \in DOMAIN h[result.obj]
    THEN h[result.obj].overall_score ELSE 0

\* x.get raises AttributeError for a result that is a tuple
SortRaises(final_results) ==
    \E i \in 1..Len(final_results) : final_results[i].kind = "tuple"

\* list.sort(key=..., reverse=True): descending and stable
InsertByScore(h, sorted, x) ==
    LET k == Cardinality({i \in 1..Len(sorted) :
                             ScoreOf(h, sorted[i]) >= ScoreOf(h, x)})
    IN  SubSeq(sorted, 1, k) \o <<x>> \o SubSeq(sorted, k + 1, Len(sorted))

RECURSIVE SortByScore(_, _)
SortByScore(h, results) ==
    IF results = <<>> THEN <<>>
    ELSE InsertByScore(h, SortByScore(h, SubSeq(results, 1, Len(results) - 1)),
                       results[Len(results)])

\* lines 133-137: the loop over the sorted final_results[1..i]
RECURSIVE AssignRanks(_, _)
AssignRanks(st, i) ==
    IF i = 0 THEN st
    ELSE
      LET prev == AssignRanks(st, i - 1)
          obj == st.final_results[i].obj
          country_code == prev.heap[obj].country_code
      IN  [prev EXCEPT
             !.heap = DictSet(@, obj, DictSet(prev.heap[obj], "rank", i)),
             !.debug_analyses =
                 IF request.debug /\ country_code \in DOMAIN @
                 THEN DictSet(@, country_code,
                              DictSet(@[country_code], "post_sort_rank", i))
                 ELSE @]

\* the fields of AnalyzeResult, which response_model keeps of each result
AnalyzeResultFields ==
    {"country_code", "country_name", "rank", "overall_score", "sub_scores",
     "explanation"}

ResponseModel(d) == [k \in DOMAIN d \cap AnalyzeResultFields |-> d[k]]

\* lines 140-158: the returned body, as it is serialized
Response(st) ==
    LET results ==
            [i \in 1..Len(st.final_results) |->
                ResponseModel(st.heap[st.final_results[i].obj])]
        unique_missing_metrics ==
            {st.all_missing_metrics[i] : i \in 1..Len(st.all_missing_metrics)}
        response_metadata ==
            [cache_hits |-> st.cache_hits, cache_misses |-> st.cache_misses,
             missing_metrics |-> unique_missing_metrics]
    IN  [status |-> 200, results |-> results,
         metadata |->
             IF request.debug
             THEN DictSet(response_metadata, "debug_analyses", st.debug_analyses)
             ELSE response_metadata]

\* an exception that leaves the handler is answered with status 500
InternalServerError == [status |-> 500]

\* /api/analyze requests received in one behaviour
MaxRequests == 2

\* lines 90-92: a request is received, the one before it having been
\* answered, and its coroutines are created; the coroutines and tasks of the
\* request before are gone, the cache and the objects it holds stay
AnalyzeReceive(countries, risk_tolerance, duration, debug) ==
    /\ request.pc \in {"idle", "responded"}
    /\ request.received < MaxRequests
    /\ request' = [pc |-> "gathering", countries |-> countries,
                   risk_tolerance |-> risk_tolerance, duration |-> duration,
                   debug |-> debug, response |-> None,
                   received |-> request.received + 1]
    /\ call' = [c \in CallIds |-> NoCall]
    /\ task' = [t \in CallIds |-> NoTask]
    /\ ready' = <<>>
    /\ UNCHANGED <<now, country_cache, in_flight_requests, heap>>

\* the i-th coroutine of the request starts
AnalyzeStartCall(c) ==
    /\ request.pc = "gathering"
    /\ c <= Len(request.countries)
    /\ AnalyzeCountry(c, request.countries[c], request.risk_tolerance,
                      request.duration, request.debug, 0)

\* gather has started every coroutine of the request
AllStarted ==
    /\ request.pc = "gathering"
    /\ \A c \in 1..Len(request.countries) : call[c].pc # "idle"

\* lines 92-158: gather has every result and the handler runs to its end
AnalyzeRespond ==
    LET collected == CollectResults(Len(request.countries))
        sorted == [collected EXCEPT
                     !.final_results = SortByScore(collected.heap, @)]
        ranked == AssignRanks(sorted, Len(sorted.final_results))
    IN
    /\ request.pc = "gathering"
    /\ \A c \in 1..Len(request.countries) : Ended(c)
    /\ IF SortRaises(collected.final_results) THEN
           /\ heap' = collected.heap
           /\ request' = [request EXCEPT !.pc = "responded",
                                         !.response = InternalServerError]
       ELSE
           /\ heap' = ranked.heap
           /\ request' = [request EXCEPT !.pc = "responded",
                                         !.response = Response(ranked)]
    /\ UNCHANGED <<now, country_cache, in_flight_requests, task, call, ready>>

\* the requests of SpecServer: MaxCalls countries, all different or the
\* second the same as the first
CountryCodes == <<"FRA", "JPN", "BRA", "IND", "KEN">>

CountryAt(i) == CountryCodes[((i - 1) % Len(CountryCodes)) + 1]

RequestChoices ==
    {[i \in 1..MaxCalls |-> CountryAt(i)],
     [i \in 1..MaxCalls |-> IF i = 2 THEN CountryAt(1) ELSE CountryAt(i)]}

\* the answers of the four calls of one gather, in SpecServer
ServerGatherChoices ==
    SpecGatherChoices
    \cup {[p \in ProviderSet |-> Exc],
          Answers(Num(82), Num(40000), Num(25), Num(215), Num(40))}

NextServer ==
    \/ \E countries \in RequestChoices, debug \in BOOLEAN :
           AnalyzeReceive(countries, "low", "short-term", debug)
    \/ \E c \in CallIds : AnalyzeStartCall(c)
    \/ \E t \in CallIds, choice \in SpecProfileChoices :
           AllStarted /\ ProfileDone(t, choice)
    \/ \E t \in CallIds, results \in ServerGatherChoices :
           AllStarted /\ Gathered(t, results)
    \/ \E c \in CallIds : AllStarted /\ Resume(c)
    \/ AnalyzeRespond

SpecServer == Init /\ [][NextServer]_vars

(***************************************************************************)
(* Properties.                                                             *)
(***************************************************************************)
Issued(c) == call[c].pc # "idle"

SameKey(c, d) == Issued(c) /\ Issued(d) /\ KeyOf(c) = KeyOf(d)

\* calls are issued in the order of their ids: c, the earlier, had not ended
\* when d was issued
Concurrent(c, d) == c < d /\ Issued(d) /\ c \notin call[d].ended_before

IsEmptyResult(ref) == heap[ref.obj] = EmptyDict

\* C1: of the analyze calls with one (countryCode, riskTolerance, duration)
\* that are issued before any of them completes, at most one starts a fetch
\* pipeline, and every one of them that misses the cache is served by a
\* pipeline of that key started by itself or by a call it overlaps with.
C1_Deduplication ==
    /\ \A c, d \in CallIds :
           SameKey(c, d) /\ Concurrent(c, d)
               => ~(call[c].role = "owner" /\ call[d].role = "owner")
    /\ \A d \in CallIds :
           call[d].role \in {"owner", "waiter"} =>
               LET t == call[d].awaits IN
               /\ task[t].state # "none"
               /\ call[t].role = "owner"
               /\ KeyOf(t) = KeyOf(d)
               /\ t = d \/ Concurrent(t, d)

C1_Witness ==
    \E c, d \in CallIds :
        /\ SameKey(c, d) /\ Concurrent(c, d)
        /\ call[c].role = "owner" /\ call[d].role = "waiter"
        /\ call[d].awaits = c
        /\ call[c].pc = "returned" /\ call[d].pc = "returned"

\* C2: a call that finds its key in flight returns, as its result, the result
\* the owning computation produced, with wasCacheHit = false.
C2_WaiterReturnsOwnerResult ==
    \A c \in CallIds :
        call[c].role = "waiter" /\ call[c].pc = "returned" =>
            /\ call[c].ret.result = task[call[c].awaits].ret.result
            /\ call[c].ret.is_cache_hit = FALSE

\* C3: once a call that missed the cache has returned a result and the call
\* owning the computation has ended, a call with identical arguments issued
\* within TTL seconds of the first one's issue is a cache hit, returns the
\* identical result and starts no pipeline.
C3_Idempotence ==
    \A c, d \in CallIds :
        /\ c < d /\ SameKey(c, d)
        /\ call[c].debug_mode = call[d].debug_mode
        /\ call[c].pc = "returned" /\ call[c].role # "hit"
        /\ c \in call[d].ended_before
        /\ call[c].awaits \in call[d].ended_before
        /\ call[d].issued_at < call[c].issued_at + TTL
        /\ call[d].pc = "returned"
        => /\ call[d].ret.is_cache_hit = TRUE
           /\ call[d].ret.result = call[c].ret.result
           /\ call[d].role # "owner"

\* C4: a key has at most one in-flight handle, the one of the unfinished call
\* that registered it, and no step registers a handle for a key that has one.
C4_LiveOwners ==
    /\ \A c, d \in CallIds :
           /\ c # d
           /\ call[c].role = "owner" /\ call[c].pc = "awaiting"
           /\ call[d].role = "owner" /\ call[d].pc = "awaiting"
           => KeyOf(c) # KeyOf(d)
    /\ \A c \in CallIds :
           call[c].role = "owner" /\ call[c].pc = "awaiting" =>
               /\ KeyOf(c) \in DOMAIN in_flight_requests
               /\ in_flight_requests[KeyOf(c)] = c

C4_RegisterOnlyAbsent ==
    \A k \in DOMAIN in_flight_requests' :
        (k \notin DOMAIN in_flight_requests
         \/ in_flight_requests'[k] # in_flight_requests[k])
            => k \notin DOMAIN in_flight_requests

C4_OneHandlePerKey == [](C4_LiveOwners) /\ [][C4_RegisterOnlyAbsent]_vars

\* a key registered, removed and registered again
C4_Witness ==
    \E c, d \in CallIds :
        /\ c < d /\ SameKey(c, d)
        /\ call[c].role = "owner" /\ Ended(c)
        /\ call[d].role = "owner" /\ call[d].pc = "awaiting"
        /\ in_flight_requests[KeyOf(d)] = d

\* C5: when the owning call ends, by a result, by the identity-failure abort
\* or by an exception of the pipeline, its step removes the key's in-flight
\* entry, and the handle of an ended call is never in the registry.
C5_OwnerEndRemoves ==
    \A c \in CallIds :
        call[c].role = "owner" /\ ~Ended(c) /\ Ended(c)'
            => KeyOf(c) \notin DOMAIN in_flight_requests'

C5_NoHandleOfEndedCall ==
    \A c \in CallIds :
        Ended(c) =>
            \A k \in DOMAIN in_flight_requests : in_flight_requests[k] # c

C5_RemovedOnEveryPath ==
    [](C5_NoHandleOfEndedCall) /\ [][C5_OwnerEndRemoves]_vars

C5_Witness ==
    \E a, b, c \in CallIds :
        /\ call[a].role = "owner" /\ call[a].pc = "raised"
        /\ call[b].role = "owner" /\ call[b].pc = "returned"
        /\ IsEmptyResult(call[b].ret.result)
        /\ call[c].role = "owner" /\ call[c].pc = "returned"
        /\ ~IsEmptyResult(call[c].ret.result)
        /\ in_flight_requests = EmptyDict

\* C6: an identity failure does not populate the cache: the cache holds no
\* empty result, and no call is answered from the cache with one.
C6_IdentityFailureNotCached ==
    /\ \A i \in 1..Len(country_cache) : ~IsEmptyResult(country_cache[i].value)
    /\ \A c \in CallIds :
           call[c].role = "hit" => ~IsEmptyResult(call[c].ret.result)

\* C7: set_cache called with an empty result leaves the cache unchanged.
C7_PutEmptyIsNoOp ==
    [][\A c \in CallIds :
          /\ call[c].role = "owner" /\ ~Ended(c)
          /\ call'[c].pc = "returned"
          /\ IsEmptyResult(call'[c].ret.result)
          => country_cache' = country_cache]_vars

(***************************************************************************)
(* Properties of one pipeline execution.                                   *)
(***************************************************************************)
\* what a provider call contributes: its value, or nothing when it raised
Contributed(results, p, field) ==
    IF results[p].kind = "ok" THEN results[p].data[field] ELSE None

Built(t) ==
    /\ task[t].state \in {"done", "failed"}
    /\ ~IdentityAbort(task[t].profile)

AllFourFail(results) ==
    /\ Contributed(results, "worldbank", "life_expectancy") = None
    /\ Contributed(results, "worldbank", "gdp_per_capita") = None
    /\ Contributed(results, "travel", "advisory_score") = None
    /\ Contributed(results, "weather", "temperature") = None
    /\ Contributed(results, "aqi", "aqi") = None

\* C8: with the identity fetch successful, whichever of the four fetches raise
\* or return absent values, the pipeline waits for all four, is not aborted,
\* builds a non-empty result from the values of the fetches that succeeded,
\* and analyze returns it.
C8_Built ==
    \A t \in CallIds :
        Built(t) /\ task[t].profile.population # Str =>
            LET r == task[t].results
                le == _normalize_life_expectancy(
                          Contributed(r, "worldbank", "life_expectancy"))
                gdp == _normalize_gdp_per_capita(
                           Contributed(r, "worldbank", "gdp_per_capita"))
                adv == _normalize_travel_advisory_score(
                           Contributed(r, "travel", "advisory_score"))
                temp == _normalize_temperature(
                            Contributed(r, "weather", "temperature"))
                aqi == _normalize_pm25(Contributed(r, "aqi", "aqi"))
            IN  /\ task[t].state = "done"
                /\ heap[t] # EmptyDict
                /\ heap[t].sub_scores.travel_risk
                       = RoundDiv((NormUnit - adv) * 100, NormUnit)
                /\ heap[t].sub_scores.health_infra
                       = RoundDiv((le + gdp) * 100, 2 * NormUnit)
                /\ heap[t].sub_scores.env_stability
                       = RoundDiv((aqi + aqi + temp) * 100, 3 * NormUnit)
                /\ Ended(t) => /\ call[t].pc = "returned"
                               /\ call[t].ret.result = Ref(t)

C8_AllFourAwaited ==
    \A t \in CallIds :
        task[t].state = "gather" /\ ~GatherDone(task[t].results) =>
            /\ task'[t].state = "gather"
            /\ \A p \in ProviderSet :
                   task[t].results[p] # Pending
                       => task'[t].results[p] = task[t].results[p]

C8_ProviderFailureIsolated == [](C8_Built) /\ [][C8_AllFourAwaited]_vars

C8_Witness ==
    \E t \in CallIds :
        /\ Built(t) /\ call[t].pc = "returned"
        /\ task[t].results["travel"] = Exc
        /\ task[t].results["weather"] = Exc
        /\ task[t].results["worldbank"] = Ok(WorldBankData(Num(82), Num(40000)))
        /\ task[t].results["aqi"] = Ok([aqi |-> Num(40)])
        /\ heap[t].sub_scores.health_infra = 71

\* C9: the missing-metrics list of a pipeline execution holds, once each,
\* exactly the metric names whose raw value is absent; humidity is always
\* one of them, and with all four provider fetches failed so are
\* life_expectancy, gdp_per_capita, travel_advisory_score, temperature, pm25
\* and pm10.
AbsentMetrics(t) ==
    LET r == task[t].results IN
      {"humidity"}
      \cup (IF Contributed(r, "worldbank", "life_expectancy") = None
            THEN {"life_expectancy"} ELSE {})
      \cup (IF Contributed(r, "worldbank", "gdp_per_capita") = None
            THEN {"gdp_per_capita"} ELSE {})
      \cup (IF task[t].profile.population = None THEN {"population"} ELSE {})
      \cup (IF Contributed(r, "aqi", "aqi") = None THEN {"pm25", "pm10"} ELSE {})
      \cup (IF Contributed(r, "travel", "advisory_score") = None
            THEN {"travel_advisory_score"} ELSE {})
      \cup (IF Contributed(r, "weather", "temperature") = None
            THEN {"temperature"} ELSE {})

C9_MissingMetricsExact ==
    \A t \in CallIds :
        Built(t) /\ task[t].state = "done" =>
            LET missing == task[t].ret.missing_metrics
                names == {missing[i] : i \in 1..Len(missing)}
            IN  /\ names = AbsentMetrics(t)
                /\ Len(missing) = Cardinality(names)
                /\ "humidity" \in names
                /\ AllFourFail(task[t].results) =>
                       {"life_expectancy", "gdp_per_capita",
                        "travel_advisory_score", "temperature", "pm25",
                        "pm10", "humidity"} \subseteq names
                /\ call[t].pc = "returned"
                       => call[t].ret.missing_metrics = missing

C9_Witness ==
    \E t \in CallIds :
        /\ Built(t) /\ call[t].pc = "returned"
        /\ \A p \in ProviderSet : task[t].results[p] = Exc
        /\ call[t].ret.missing_metrics =
               <<"life_expectancy", "gdp_per_capita", "pm25", "pm10",
                 "travel_advisory_score", "temperature", "humidity">>

\* the case of C10: low, short-term, the four fetches failed and no
\* population, so that every normalized value is its fallback
FallbackCase(t) ==
    /\ Built(t) /\ call[t].pc = "returned"
    /\ call[t].risk_tolerance = "low" /\ call[t].duration = "short-term"
    /\ AllFourFail(task[t].results)
    /\ task[t].profile.population = None

\* C10 as stated: in that case overall_score is 50.0
C10_FallbackScoreIs50 ==
    \A t \in CallIds :
        FallbackCase(t) => heap[call[t].ret.result.obj].overall_score = 500

\* C10, amended: in that case overall_score is 39.4
C10_FallbackScoreIs39_4 ==
    \A t \in CallIds :
        FallbackCase(t) => heap[call[t].ret.result.obj].overall_score = 394

C10_Witness ==
    \E t \in CallIds :
        /\ FallbackCase(t)
        /\ \A p \in ProviderSet : task[t].results[p] = Exc
        /\ heap[t].sub_scores = [travel_risk |-> 80, health_infra |-> 50,
                                 env_stability |-> 50]

(***************************************************************************)
(* Identity failure.                                                       *)
(***************************************************************************)
\* the profile fetch of task t has answered without the ISO2 code
IdentityFailed(t) ==
    /\ task[t].state \notin {"none", "profile"}
    /\ task[t].profile.iso2 = None

\* C11: when the profile fetch answers without the identity fields, the
\* pipeline ends with the empty result and a missing-metrics list of exactly
\* one marker, none of the four provider fetches is issued and nothing is
\* scored; analyze returns that empty result and that list.
C11_IdentityFailureAborts ==
    \A t \in CallIds :
        IdentityFailed(t) =>
            /\ task[t].state = "done"
            /\ task[t].results = EmptyDict
            /\ heap[t] = EmptyDict
            /\ task[t].ret.result = Ref(t)
            /\ task[t].ret.missing_metrics \in {<<"country_profile">>, <<"iso2_code">>}
            /\ call[t].pc = "returned" =>
                   /\ call[t].ret.result = Ref(t)
                   /\ Len(call[t].ret.missing_metrics) = 1

C11_Witness ==
    \E t \in CallIds :
        /\ IdentityFailed(t)
        /\ call[t].pc = "returned"
        /\ call[t].ret = Tuple3(Ref(t), FALSE, <<"iso2_code">>)
        /\ heap[t] = EmptyDict

(***************************************************************************)
(* Cancellation of a caller.                                               *)
(***************************************************************************)
\* C12: no computation is ended by the cancellation of a call waiting for
\* it: whatever calls are cancelled, every started computation is running or
\* has finished by itself, and the owner of a computation that returned a
\* result has ended by returning it (after putting it in the cache).
C12_NoCrossRequestCancellation ==
    \A t \in CallIds :
        /\ task[t].state # "cancelled"
        /\ call[t].role = "owner" /\ call[t].pc = "raised"
               => task[t].state = "failed"

\* a waiter is cancelled: the computation and its owner end with it
C12_CancelledWaiterEndsOwner ==
    \E c, d \in CallIds :
        /\ c < d /\ call[c].role = "owner" /\ call[d].role = "waiter"
        /\ call[d].awaits = c
        /\ task[c].ret = CancelledBy(d)
        /\ call[c].pc = "raised" /\ call[d].pc = "raised"
        /\ KeyOf(c) \notin CacheKeys(country_cache)

(***************************************************************************)
(* Missing metrics reported by analyze_country.                            *)
(***************************************************************************)
\* the computation that built the result a returned call carries
SourceTask(c) ==
    IF call[c].ret.result.kind = "tuple"
    THEN call[c].ret.result.result.obj
    ELSE call[c].ret.result.obj

NamesOf(seq) == {seq[i] : i \in 1..Len(seq)}

\* C13: a call that returns a non-empty result reports, in its own
\* missing-metrics output, every metric name the computation of that result
\* found absent, whether the call owned the computation, waited for it or
\* was answered from the cache.
C13_MissingMetricsSurfaced ==
    \A c \in CallIds :
        call[c].pc = "returned" /\ heap[SourceTask(c)] # EmptyDict =>
            NamesOf(task[SourceTask(c)].ret.missing_metrics)
                \subseteq NamesOf(call[c].ret.missing_metrics)

\* the owner reports them; the hit of the same result reports none
C13_HitDropsMissing ==
    \E c, d \in CallIds :
        /\ call[c].role = "owner" /\ call[c].pc = "returned"
        /\ "humidity" \in NamesOf(call[c].ret.missing_metrics)
        /\ call[d].role = "hit" /\ call[d].ret.result = call[c].ret.result
        /\ heap[c] # EmptyDict
        /\ call[d].ret.missing_metrics = <<>>

(***************************************************************************)
(* The cached result and the request handler.                              *)
(***************************************************************************)
CachedObjects == {country_cache[i].value.obj : i \in 1..Len(country_cache)}

C14_NoRankInCache == \A o \in CachedObjects : "rank" \notin DOMAIN heap[o]

C14_CachedValueKept ==
    \A o \in CachedObjects :
        o \in {country_cache'[i].value.obj : i \in 1..Len(country_cache')}
            => heap'[o] = heap[o]

\* C14: the value the cache holds for a key carries no rank, and no step of
\* the request handler or of analyze changes a value while the cache holds
\* it.
C14_CachedResultImmutable ==
    [](C14_NoRankInCache) /\ [][C14_CachedValueKept]_vars

\* a debug request has answered: the cached results have a rank and have
\* lost their debug_analysis
C14_CachedResultRanked ==
    /\ request.pc = "responded" /\ request.debug
    /\ request.response.status = 200
    /\ \E o \in CachedObjects :
           /\ heap[o] # EmptyDict
           /\ heap[o].rank = 1
           /\ "debug_analysis" \notin DOMAIN heap[o]
           /\ call[o].debug_mode

(***************************************************************************)
(* Expiry and capacity of the cache.                                       *)
(***************************************************************************)
\* seconds since the insertion of a cache entry, at time `time`
Age(entry, time) == time - (entry.expires - TTL)

EntriesOf(key) == {i \in 1..Len(country_cache) : country_cache[i].key = key}

\* C15: a call is answered from the cache only with an entry inserted at
\* most TTL seconds earlier, and a call whose key has only an entry inserted
\* more than TTL seconds earlier takes the miss path.
C15_Entering ==
    \A d \in CallIds :
        call[d].pc = "idle" /\ call'[d].pc # "idle" =>
            LET held == EntriesOf(KeyOf(d)') IN
            /\ call'[d].role = "hit" =>
                   \E i \in held :
                       /\ country_cache[i].value = call'[d].ret.result
                       /\ Age(country_cache[i], now') <= TTL
            /\ (held # {} /\ \A i \in held : Age(country_cache[i], now') > TTL)
                   => call'[d].role \in {"owner", "waiter"}

C15_TTLExpiry == [][C15_Entering]_vars

\* a call has started a pipeline for a key whose entry, still held, was
\* inserted more than TTL seconds before the call
C15_Witness ==
    \E d \in CallIds :
        /\ call[d].role = "owner" /\ call[d].pc = "awaiting"
        /\ \E i \in EntriesOf(KeyOf(d)) :
               /\ Age(country_cache[i], call[d].issued_at) > TTL
               /\ heap[country_cache[i].value.obj] # EmptyDict

\* C16: the cache never holds more than MAXSIZE entries (one per key), and a
\* step that puts a new key into a full cache leaves it full, with the new
\* key admitted and exactly one of the keys it held evicted.
C16_AtMostMaxsize ==
    /\ Len(country_cache) <= MAXSIZE
    /\ Cardinality(CacheKeys(country_cache)) = Len(country_cache)

C16_FullCacheEvictsOne ==
    LET old == CacheKeys(country_cache)
        new == CacheKeys(country_cache')
    IN  Len(country_cache) = MAXSIZE /\ new \ old # {} =>
            /\ Cardinality(new \ old) = 1
            /\ Cardinality(old \ new) = 1
            /\ Len(country_cache') = MAXSIZE
            /\ country_cache'[MAXSIZE].key \in new \ old

C16_CapacityBound == [](C16_AtMostMaxsize) /\ [][C16_FullCacheEvictsOne]_vars

\* the cache is full, the newest key is in it and the first key is not
C16_Witness ==
    /\ Len(country_cache) = MAXSIZE
    /\ now > MAXSIZE
    /\ KeyAt(now) \in CacheKeys(country_cache)
    /\ KeyAt(1) \notin CacheKeys(country_cache)

(***************************************************************************)
(* Weights and normalization, as the pipeline uses them.                   *)
(***************************************************************************)
\* call c has its result, built in debug mode
Scored(c) ==
    /\ task[c].state = "done"
    /\ heap[c] # EmptyDict
    /\ "debug_analysis" \in DOMAIN heap[c]

\* C17: for the (riskTolerance, duration) of every call, each weight of
\* get_weights is non-negative and the weights sum to 1 (the numerators sum
\* to the common denominator), and these are the weights the pipeline used.
C17_WeightsSumToOne ==
    \A c \in CallIds :
        Issued(c) =>
            LET weights == get_weights(call[c].risk_tolerance, call[c].duration)
                w == weights.num
            IN  /\ weights.den > 0
                /\ \A k \in DOMAIN w : w[k] >= 0
                /\ w.life_expectancy + w.gdp_per_capita + w.population
                       + w.pm25 + w.travel_advisory_score + w.temperature
                       + w.humidity = weights.den
                /\ Scored(c) => heap[c].debug_analysis.weights_used = weights

C17_Witness ==
    \E c \in CallIds :
        /\ Scored(c)
        /\ call[c].risk_tolerance = "moderate" /\ call[c].duration = "long-term"
        /\ heap[c].debug_analysis.weights_used.num.humidity = 90
        /\ heap[c].debug_analysis.weights_used.num.travel_advisory_score = 225
        /\ heap[c].debug_analysis.weights_used.den = 1130

\* C18: the mapping get_weights returns has an entry for each of the eight
\* metric names, so that every metric score_country is given (the keys of
\* the normalized metrics) has a weight entry of its own.
C18_WeightForEveryMetric ==
    \A c \in CallIds :
        Scored(c) =>
            /\ DOMAIN heap[c].debug_analysis.weights_used.num = MetricSet
            /\ \A metric_name \in DOMAIN heap[c].debug_analysis.normalized_metrics :
                   metric_name \in DOMAIN heap[c].debug_analysis.weights_used.num

\* pm10 is scored and has no weight entry
C18_Pm10Unweighted ==
    \E c \in CallIds :
        /\ Scored(c)
        /\ "pm10" \in DOMAIN heap[c].debug_analysis.normalized_metrics
        /\ DOMAIN heap[c].debug_analysis.weights_used.num = MetricSet \ {"pm10"}

\* C19: every normalized metric value lies in [0, 1], whatever the raw value.
C19_NormalizedInUnitInterval ==
    \A c \in CallIds :
        Scored(c) =>
            \A m \in MetricSet :
                /\ heap[c].debug_analysis.normalized_metrics[m] >= 0
                /\ heap[c].debug_analysis.normalized_metrics[m] <= NormUnit

\* an advisory level of 5 gives a raw score of 125 and a normalized value
\* of -0.25
C19_AdvisoryBelowZero ==
    \E c \in CallIds :
        /\ Scored(c)
        /\ heap[c].debug_analysis.raw_metrics.travel_advisory_score = Num(125)
        /\ 4 * heap[c].debug_analysis.normalized_metrics.travel_advisory_score
               = 0 - NormUnit

\* the fallback constant of a metric: 0.2 for the advisory score, else 0.5
Fallback(m) ==
    IF m = "travel_advisory_score" THEN NormUnit \div 5 ELSE NormUnit \div 2

\* C20: a pipeline given absent raw values raises nothing, and the
\* normalized value of every absent raw value is exactly the metric's
\* fallback constant.
C20_AbsentGivesFallback ==
    \A c \in CallIds :
        task[c].state \in {"done", "failed"} /\ ~IdentityFailed(c) =>
            /\ Scored(c)
            /\ \A m \in MetricSet :
                   heap[c].debug_analysis.raw_metrics[m] = None =>
                       heap[c].debug_analysis.normalized_metrics[m] = Fallback(m)

C20_Witness ==
    \E c \in CallIds :
        /\ Scored(c)
        /\ \A m \in MetricSet : heap[c].debug_analysis.raw_metrics[m] = None
        /\ heap[c].debug_analysis.normalized_metrics.travel_advisory_score * 5
               = NormUnit
        /\ heap[c].debug_analysis.normalized_metrics.pm10 * 2 = NormUnit
        /\ heap[c].debug_analysis.normalized_metrics.humidity * 2 = NormUnit


(***************************************************************************)
(* Temperature normalization.                                              *)
(***************************************************************************)
\* the bands of the temperature score, for a raw value in tenths of a
\* degree: 1 from 15 to 28, a ramp over 15 degrees below and over 12 above
TemperatureBands(tenths) ==
    IF 150 <= tenths /\ tenths <= 280 THEN NormUnit
    ELSE IF tenths < 150
         THEN Max(0, (NormUnit * (150 - (150 - tenths))) \div 150)
         ELSE Max(0, (NormUnit * (120 - (tenths - 280))) \div 120)

\* C21: the normalized temperature of a scored call is 1.0 for a raw value
\* from 15 to 28, max(0, 1 - (15 - v)/15) below 15 and max(0, 1 - (v - 28)/12)
\* above 28; it is 1.0 at 21.5, 0.0 at 0 and 0.0 at 40.
C21_TemperatureBands ==
    /\ _normalize_temperature(Num(215)) = NormUnit
    /\ _normalize_temperature(Num(0)) = 0
    /\ _normalize_temperature(Num(400)) = 0
    /\ \A c \in CallIds :
           Scored(c) /\ heap[c].debug_analysis.raw_metrics.temperature # None =>
               heap[c].debug_analysis.normalized_metrics.temperature
                   = TemperatureBands(
                         heap[c].debug_analysis.raw_metrics.temperature.v)

\* a call scored at 34 degrees has a temperature score of 0.5
C21_Witness ==
    \E c \in CallIds :
        /\ Scored(c)
        /\ heap[c].debug_analysis.raw_metrics.temperature = Num(340)
        /\ heap[c].debug_analysis.normalized_metrics.temperature * 2 = NormUnit


(***************************************************************************)
(* The scoring engine.                                                     *)
(***************************************************************************)
\* value * weight of metric m when m is present in metrics, the weight being
\* 0 when the weights have no entry for m; in units of 1/(NormUnit * den)
WeightedTerm(metrics, weights, m) ==
    IF m \notin DOMAIN metrics THEN 0
    ELSE IF m \notin DOMAIN weights.num THEN 0
    ELSE metrics[m] * weights.num[m]

\* C22: score_country(metrics, weights) is 100 times the sum of value*weight
\* over the metrics present, a metric without a weight entry counting with
\* weight 0, rounded to 2 decimals (the score is in hundredths); for the
\* empty metrics mapping it is 0.0 whatever the weights.
C22_ScoreIsWeightedSum ==
    1 \in DOMAIN heap /\ "score" \in DOMAIN heap[1] =>
        LET metrics == heap[1].metrics
            weights == heap[1].weights
            total == WeightedTerm(metrics, weights, "life_expectancy")
                         + WeightedTerm(metrics, weights, "pm10")
                         + WeightedTerm(metrics, weights, "humidity")
        \* hundredths of 100 * total / (NormUnit * den): 100 * 100 / NormUnit
        \* is 5 / 21
        IN  /\ 21 * 100 * 100 = 5 * NormUnit
            /\ heap[1].score = RoundDiv(total * 5, 21 * weights.den)
            /\ metrics = EmptyDict => heap[1].score = 0

\* life expectancy 1.0 under low, short-term weights (0.16 of 1.19), with a
\* humidity of weight 0 and a pm10 without a weight entry: 13.45
C22_Witness ==
    /\ 1 \in DOMAIN heap /\ "score" \in DOMAIN heap[1]
    /\ heap[1].weights = get_weights("low", "short-term")
    /\ heap[1].metrics = [life_expectancy |-> NormUnit, pm10 |-> NormUnit,
                          humidity |-> NormUnit \div 2]
    /\ heap[1].score = 1345


(***************************************************************************)
(* Ranges of the scores of a result.                                       *)
(***************************************************************************)
\* C23: every non-empty result the aggregator builds has its overall score
\* in [0, 100] (in tenths) and each of its three sub-scores in [0, 100],
\* whatever the providers answered.
C23_ScoresInRange ==
    \A c \in CallIds :
        task[c].state = "done" /\ heap[c] # EmptyDict =>
            /\ heap[c].overall_score >= 0
            /\ heap[c].overall_score <= 100 * 10
            /\ \A k \in {"travel_risk", "health_infra", "env_stability"} :
                   /\ heap[c].sub_scores[k] >= 0
                   /\ heap[c].sub_scores[k] <= 100

\* an advisory of level 5 gives a raw score of 125 and a travel_risk of 125
C23_TravelRiskAbove100 ==
    \E c \in CallIds :
        /\ Scored(c)
        /\ heap[c].debug_analysis.raw_metrics.travel_advisory_score = Num(125)
        /\ heap[c].sub_scores.travel_risk = 125


(***************************************************************************)
(* Ranking.                                                                *)
(***************************************************************************)
\* the request has been answered with a body
Answered == request.pc = "responded" /\ request.response.status = 200

\* C24: the results of a response are in descending order of overall_score
\* and carry the ranks 1, 2, ... in that order, so that of any two results
\* the one with the smaller rank has an overall_score greater than or equal
\* to the other's.
C24_RankedByScore ==
    Answered =>
        LET results == request.response.results
        IN  /\ \A i \in 1..Len(results) : results[i].rank = i
            /\ \A i, j \in 1..Len(results) :
                   results[i].rank < results[j].rank =>
                       results[i].overall_score >= results[j].overall_score

\* a country requested twice and served from the cache both times is one
\* dict in two places of the list: both entries carry the rank assigned last
C24_TwoResultsOneRank ==
    /\ Answered
    /\ \E i, j \in 1..Len(request.response.results) :
           /\ i < j
           /\ request.response.results[i].rank = request.response.results[j].rank


(***************************************************************************)
(* The entries of a response.                                              *)
(***************************************************************************)
\* the i-th country of the request was aggregated: its call returned a
\* non-empty result, its own, a waited-for one or a cached one
Aggregated(i) ==
    call[i].pc = "returned" /\ heap[SourceTask(i)] # EmptyDict

\* the i-th country of the request has no identity: its call returned the
\* empty result
Omitted(i) ==
    call[i].pc = "returned" /\ heap[SourceTask(i)] = EmptyDict

\* C25: every request is answered with a body that has one result entry for
\* each requested country that was aggregated (as many entries with a code
\* as the request has aggregated places with it), has no entry for a
\* country whose identity fetch failed, and lists each such country in the
\* missing_metrics of its metadata.
C25_OneEntryPerAggregatedCountry ==
    request.pc = "responded" =>
        /\ request.response.status = 200
        /\ \A cc \in NamesOf(request.countries) :
               Cardinality({i \in 1..Len(request.response.results) :
                               request.response.results[i].country_code = cc})
                   = Cardinality({i \in 1..Len(request.countries) :
                                     request.countries[i] = cc /\ Aggregated(i)})
        /\ \A i \in 1..Len(request.countries) :
               Omitted(i) =>
                   request.countries[i] \in request.response.metadata.missing_metrics

\* a request naming one country twice with a cold cache: every country was
\* aggregated and the request is answered with status 500, without entries
C25_AggregatedAndNoBody ==
    /\ request.pc = "responded"
    /\ request.response = InternalServerError
    /\ \A i \in 1..Len(request.countries) : Aggregated(i)


(***************************************************************************)
(* The debug payload.                                                      *)
(***************************************************************************)
\* C26: a call made with the debug flag that returns a non-empty result
\* returns a result dict carrying the debug payload (weights used, raw
\* metrics, normalized metrics), whether it computed the result, waited for
\* it or found it in the cache.
C26_DebugPayloadAttached ==
    \A c \in CallIds :
        /\ call[c].pc = "returned"
        /\ call[c].debug_mode
        /\ heap[SourceTask(c)] # EmptyDict
        => /\ call[c].ret.result.kind = "dict"
           /\ "debug_analysis" \in DOMAIN heap[call[c].ret.result.obj]
           /\ DOMAIN heap[call[c].ret.result.obj].debug_analysis
                  = {"weights_used", "raw_metrics", "normalized_metrics"}

\* a call without the flag computed and cached the result; a later call
\* with the flag is answered from the cache with the result without payload
C26_DebugHitWithoutPayload ==
    \E c, d \in CallIds :
        /\ c < d /\ SameKey(c, d)
        /\ ~call[c].debug_mode /\ call[d].debug_mode
        /\ call[d].pc = "returned" /\ call[d].ret.is_cache_hit
        /\ call[d].ret.result = Ref(c)
        /\ heap[c] # EmptyDict
        /\ "debug_analysis" \notin DOMAIN heap[c]


(***************************************************************************)
(* The frame of a cache hit.                                               *)
(***************************************************************************)
\* call c is issued in this step while the cache holds a valid entry for
\* its key
C27_EntersWithValidEntry(c) ==
    /\ call[c].pc = "idle" /\ call'[c].pc # "idle"
    /\ TTLCacheGet(country_cache, KeyOf(c)', now') # None

\* the step returns the cached value at once and changes nothing else: no
\* task (so no provider fetch), no in-flight handle, same cached keys
C27_HitHasNoEffect(c) ==
    /\ call'[c].pc = "returned"
    /\ call'[c].ret
           = Tuple3(TTLCacheGet(country_cache, KeyOf(c)', now'), TRUE, <<>>)
    /\ task' = task
    /\ in_flight_requests' = in_flight_requests
    /\ CacheKeys(country_cache') = CacheKeys(country_cache)
    /\ heap' = heap

\* C27: an analyze call that finds a valid cache entry returns it in the
\* same step as a cache hit, starts no pipeline (issues no provider fetch),
\* registers no in-flight handle, and leaves the set of cached keys and the
\* in-flight registry as they were.
C27_CacheHitFrame ==
    [][\A c \in CallIds : C27_EntersWithValidEntry(c) => C27_HitHasNoEffect(c)]_vars

\* a call answered from the cache: it has no task and no handle of its key
C27_Witness ==
    \E c \in CallIds :
        /\ call[c].pc = "returned" /\ call[c].role = "hit"
        /\ call[c].ret.is_cache_hit
        /\ task[c].state = "none"
        /\ KeyOf(c) \in CacheKeys(country_cache)
        /\ ~is_in_flight(KeyOf(c))


(***************************************************************************)
(* No retries.                                                             *)
(***************************************************************************)
\* C28: in one execution of the fetch pipeline the profile provider and each
\* of the four metric providers is called at most once: exactly once as soon
\* as the step that calls it is reached, and not again when the call has
\* failed.
C28_NoRetries ==
    \A t \in CallIds :
        /\ \A p \in DOMAIN task[t].calls : task[t].calls[p] <= 1
        /\ task[t].state # "none" => task[t].calls["profile"] = 1
        /\ \A p \in ProviderSet :
               /\ p \in DOMAIN task[t].results => task[t].calls[p] = 1
               /\ IdentityFailed(t) => task[t].calls[p] = 0

\* a pipeline has ended with two providers having failed, each called once
C28_Witness ==
    \E t \in CallIds :
        /\ task[t].state = "done"
        /\ heap[t] # EmptyDict
        /\ task[t].results["travel"] = Exc
        /\ task[t].results["aqi"] = Exc
        /\ \A p \in {"profile"} \cup ProviderSet : task[t].calls[p] = 1


(***************************************************************************)
(* The order of the steps of one pipeline.                                 *)
(***************************************************************************)
\* the four fetches have been called only when the profile fetch has
\* answered; a result exists only when each of the four has answered or
\* raised; the cache holds a task's result only when the task is done
C29_Order ==
    /\ \A t \in CallIds, p \in ProviderSet :
           task[t].calls[p] > 0 =>
               task[t].profile # None /\ task[t].state # "profile"
    /\ \A t \in CallIds :
           t \in DOMAIN heap /\ heap[t] # EmptyDict =>
               /\ task[t].state = "done"
               /\ \A p \in ProviderSet : task[t].results[p] # Pending
    /\ \A o \in CachedObjects : o \in DOMAIN heap /\ task[o].state = "done"

\* the step that ends the gathering starts from a state in which no fetch
\* is pending, and builds from the answers gathered; the step that puts a
\* key in the cache starts from a state in which the result is built
C29_StepOrder ==
    /\ \A t \in CallIds :
           task[t].state = "gather" /\ task'[t].state \in {"done", "failed"} =>
               /\ GatherDone(task[t].results)
               /\ task'[t].results = task[t].results
    /\ \A t \in CallIds, p \in ProviderSet :
           task[t].calls[p] = 0 /\ task'[t].calls[p] > 0 =>
               task[t].state = "profile" /\ task'[t].profile # None
    /\ country_cache' # country_cache =>
           \E c \in CallIds :
               /\ call[c].pc = "awaiting" /\ call'[c].pc = "returned"
               /\ task[call[c].awaits].state = "done"
               /\ call[c].awaits \in DOMAIN heap

\* C29: within one key's pipeline the four provider fetches start only after
\* the profile fetch has completed, raw-metric assembly and scoring start
\* only after all four fetches have completed or failed, and the cache is
\* populated only after the result is fully built.
C29_PipelineOrder == [](C29_Order) /\ [][C29_StepOrder]_vars

\* the whole pipeline has run, one fetch having failed, and its result is in
\* the cache
C29_Witness ==
    /\ task[1].state = "done"
    /\ heap[1] # EmptyDict
    /\ task[1].results["weather"] = Exc
    /\ task[1].results["aqi"] # Exc
    /\ 1 \in CachedObjects
    /\ call[1].pc = "returned"


(***************************************************************************)
(* An exception of one key's pipeline.                                     *)
(***************************************************************************)
\* the call of the i-th country of the request ended with an exception
Failed(i) == i <= Len(request.countries) /\ call[i].pc = "raised"

\* C30: when the pipeline of one country of a request raises, the request
\* is still answered with a body: nothing is cached for that country's key,
\* the country is listed in missing_metrics, and every other country of the
\* request that was aggregated has its entry in the results.
C30_FailureOfThatKeyOnly ==
    request.pc = "responded" /\ (\E i \in CallIds : Failed(i)) =>
        /\ request.response.status = 200
        /\ \A i \in CallIds :
               Failed(i) =>
                   /\ KeyOf(i) \notin CacheKeys(country_cache)
                   /\ request.countries[i]
                          \in request.response.metadata.missing_metrics
        /\ \A j \in 1..Len(request.countries) :
               Aggregated(j) =>
                   \E k \in 1..Len(request.response.results) :
                       request.response.results[k].country_code
                           = request.countries[j]

\* the pipeline of the third country raised, the first country was named
\* twice and aggregated, and the request is answered with status 500
C30_OtherResultsLost ==
    /\ request.pc = "responded"
    /\ request.response = InternalServerError
    /\ Failed(3) /\ task[3].state = "failed"
    /\ Aggregated(1) /\ Aggregated(2)


(***************************************************************************)
(* The weight tables.                                                      *)
(***************************************************************************)
\* the specified table, in hundredths: the column of a tolerance level
TableColumn(risk_tolerance) ==
    IF risk_tolerance = "low" THEN
        [life_expectancy |-> 20, gdp_per_capita |-> 15, population |-> 5,
         pm25 |-> 20, travel_advisory_score |-> 35, temperature |-> 15,
         humidity |-> 0]
    ELSE IF risk_tolerance = "high" THEN
        [life_expectancy |-> 20, gdp_per_capita |-> 30, population |-> 15,
         pm25 |-> 10, travel_advisory_score |-> 10, temperature |-> 15,
         humidity |-> 0]
    ELSE
        [life_expectancy |-> 20, gdp_per_capita |-> 20, population |-> 10,
         pm25 |-> 15, travel_advisory_score |-> 25, temperature |-> 10,
         humidity |-> 10]

\* the specified multipliers, in tenths
TableMultiplier(duration) ==
    IF duration = "short-term" THEN
        [temperature |-> 12, humidity |-> 11, pm25 |-> 12,
         travel_advisory_score |-> 12, life_expectancy |-> 8,
         population |-> 8, gdp_per_capita |-> 10]
    ELSE
        [temperature |-> 8, humidity |-> 9, pm25 |-> 9,
         travel_advisory_score |-> 9, life_expectancy |-> 12,
         population |-> 12, gdp_per_capita |-> 12]

\* table value times multiplier, of metric k
TableProduct(risk_tolerance, duration, k) ==
    TableColumn(risk_tolerance)[k] * TableMultiplier(duration)[k]

TableSum(risk_tolerance, duration) ==
    TableProduct(risk_tolerance, duration, "life_expectancy")
        + TableProduct(risk_tolerance, duration, "gdp_per_capita")
        + TableProduct(risk_tolerance, duration, "population")
        + TableProduct(risk_tolerance, duration, "pm25")
        + TableProduct(risk_tolerance, duration, "travel_advisory_score")
        + TableProduct(risk_tolerance, duration, "temperature")
        + TableProduct(risk_tolerance, duration, "humidity")

\* C31: the weights a call is scored with are, for each of the seven
\* metrics, the table value of the call's tolerance level times the
\* multiplier of its duration, divided by the sum of these products; a
\* tolerance level other than low and high takes the moderate column.
C31_WeightsFromTables ==
    \A c \in CallIds :
        Scored(c) =>
            LET weights == heap[c].debug_analysis.weights_used
                rt == call[c].risk_tolerance
                dur == call[c].duration
            IN  /\ DOMAIN weights.num = DOMAIN TableColumn(rt)
                /\ \A k \in DOMAIN weights.num :
                       weights.num[k] * TableSum(rt, dur)
                           = TableProduct(rt, dur, k) * weights.den
                /\ rt \notin {"low", "high"} =>
                       weights = get_weights("moderate", dur)

\* a call with a tolerance level that is no level, long-term: the moderate
\* column, travel advisory 0.25 * 0.9 of 1.13
C31_Witness ==
    \E c \in CallIds :
        /\ Scored(c)
        /\ call[c].risk_tolerance = "extreme" /\ call[c].duration = "long-term"
        /\ heap[c].debug_analysis.weights_used.num.travel_advisory_score = 225
        /\ heap[c].debug_analysis.weights_used.den = 1130


(***************************************************************************)
(* Whose handle a cleanup removes.                                         *)
(***************************************************************************)
\* the handles this step takes out of the registry (removed or replaced)
RemovedKeys ==
    {k \in DOMAIN in_flight_requests :
        k \notin DOMAIN in_flight_requests'
        \/ in_flight_requests'[k] # in_flight_requests[k]}

\* every handle a step removes is the handle of the task created by the
\* owning call that ends in this step, registered under that call's key
C32_RemovesOwn ==
    \A k \in RemovedKeys :
        \E c \in CallIds :
            /\ call[c].role = "owner"
            /\ ~Ended(c) /\ Ended(c)'
            /\ KeyOf(c) = k
            /\ in_flight_requests[k] = c
            /\ call[c].awaits = c

\* C32: the handle an owning call removes in its cleanup is the handle that
\* call registered; no call removes the in-flight entry another call
\* registered for the same key, whatever the order of calls, completions
\* and failures.
C32_CleanupRemovesOwnHandle == [][C32_RemovesOwn]_vars

\* three calls of one key: the first owned a pipeline that raised and has
\* cleaned up, the second waited for it and raised, the third has registered
\* a handle of its own while the second was still waiting to be resumed
C32_Witness ==
    /\ call[1].role = "owner" /\ call[1].pc = "raised"
    /\ call[2].role = "waiter" /\ call[2].pc = "raised"
    /\ call[3].role = "owner" /\ call[3].pc = "awaiting"
    /\ 2 \notin call[3].ended_before
    /\ SameKey(1, 3)
    /\ in_flight_requests[KeyOf(3)] = 3


(***************************************************************************)
(* In flight and cached.                                                   *)
(***************************************************************************)
\* C33: in every state between two steps (the points where control passes
\* from one call to another) a key that has an in-flight entry has no valid
\* entry in the cache.
C33_InFlightNotCached ==
    \A k \in DOMAIN in_flight_requests :
        TTLCacheGet(country_cache, k, now) = None

\* a key is in flight again while the cache still stores its expired entry
C33_Witness ==
    \E c \in CallIds :
        /\ call[c].role = "owner" /\ call[c].pc = "awaiting"
        /\ in_flight_requests[KeyOf(c)] = c
        /\ KeyOf(c) \in CacheKeys(country_cache)
        /\ TTLCacheGet(country_cache, KeyOf(c), now) = None


(***************************************************************************)
(* A pipeline that raises, and the calls waiting for it.                   *)
(***************************************************************************)
\* call c is served by task t: it created it or found its handle in flight
ServedBy(c, t) ==
    call[c].role \in {"owner", "waiter"} /\ call[c].awaits = t

\* every call served by a task that raised is scheduled to resume or has
\* raised; none has returned, none waits unscheduled
C34_WaitersFail ==
    \A t \in CallIds :
        task[t].state = "failed" =>
            \A c \in CallIds :
                ServedBy(c, t) =>
                    \/ call[c].pc = "raised"
                    \/ /\ call[c].pc = "awaiting"
                       /\ \E i \in 1..Len(ready) : ready[i] = c

\* the step in which the owner of a task that raised ends leaves its key
\* without a valid cache entry and without an in-flight entry
C34_KeyAbsentAfterwards ==
    \A c \in CallIds :
        /\ call[c].role = "owner" /\ task[c].state = "failed"
        /\ ~Ended(c) /\ Ended(c)'
        => /\ TTLCacheGet(country_cache', KeyOf(c), now') = None
           /\ KeyOf(c) \notin DOMAIN in_flight_requests'

\* C34: when the owning pipeline of a key ends with an exception, every call
\* waiting on the key's in-flight handle ends with a failure too (each is
\* scheduled to resume and raises, none returns a result), and when the
\* owner has ended the key is neither cached nor in flight.
C34_OwnerFailureFailsWaiters ==
    [](C34_WaitersFail) /\ [][C34_KeyAbsentAfterwards]_vars

\* a pipeline raised; its owner and two calls that waited for it have all
\* raised, and the key is neither cached nor in flight
C34_Witness ==
    /\ task[1].state = "failed"
    /\ call[1].role = "owner" /\ call[1].pc = "raised"
    /\ call[2].role = "waiter" /\ call[2].awaits = 1 /\ call[2].pc = "raised"
    /\ call[3].role = "waiter" /\ call[3].awaits = 1 /\ call[3].pc = "raised"
    /\ KeyOf(1) \notin DOMAIN in_flight_requests
    /\ KeyOf(1) \notin CacheKeys(country_cache)


(***************************************************************************)
(* Liveness.                                                               *)
(***************************************************************************)
\* every call issued has ended and the registry is empty
Quiescent ==
    /\ \A c \in CallIds : Issued(c) => Ended(c)
    /\ in_flight_requests = EmptyDict

\* C35: with every provider call answering in the end and the event loop
\* running every scheduled call, every analyze call that has been issued,
\* owner or waiter, eventually returns or raises, and every in-flight entry
\* is eventually removed: as a call once issued stays issued and a call once
\* ended stays ended, and only finitely many calls are issued, this is that
\* from some point on every issued call has ended and the registry is
\* empty.
C35_EveryCallEnds == <>[]Quiescent

\* an owner and a waiter of one key have both ended after having waited, and
\* the registry is empty
C35_Witness ==
    \E c, d \in CallIds :
        /\ c < d /\ SameKey(c, d) /\ Concurrent(c, d)
        /\ call[c].role = "owner" /\ Ended(c)
        /\ call[d].role = "waiter" /\ Ended(d)
        /\ in_flight_requests = EmptyDict


(***************************************************************************)
(* The debug payload and calls without the flag.                           *)
(***************************************************************************)
\* C36: the result a call without the debug flag returns carries no debug
\* payload, whatever calls with the flag did for the same key before it or
\* while it ran.
C36_NoPayloadWithoutFlag ==
    \A c \in CallIds :
        call[c].pc = "returned" /\ ~call[c].debug_mode =>
            "debug_analysis" \notin DOMAIN heap[SourceTask(c)]

\* a call with the flag computed and cached the result with its payload; a
\* later call without the flag is answered from the cache with that dict
C36_PayloadServedFromCache ==
    \E c, d \in CallIds :
        /\ c < d /\ SameKey(c, d)
        /\ call[c].debug_mode /\ ~call[d].debug_mode
        /\ call[d].pc = "returned" /\ call[d].ret.is_cache_hit
        /\ call[d].ret.result = Ref(c)
        /\ "debug_analysis" \in DOMAIN heap[c]
        /\ DOMAIN heap[c].debug_analysis
               = {"weights_used", "raw_metrics", "normalized_metrics"}


(***************************************************************************)
(* The ranks of a response.                                                *)
(***************************************************************************)
\* the ranks the entries of the response carry
RanksOf(results) == {results[i].rank : i \in 1..Len(results)}

\* C37: in every response the ranks of the entries are pairwise distinct
\* and are exactly 1..n for n entries, also when a country code occurs more
\* than once in the request and its entries come from the cache.
C37_RanksAreOneToN ==
    Answered =>
        LET results == request.response.results
        IN  /\ RanksOf(results) = 1..Len(results)
            /\ \A i, j \in 1..Len(results) :
                   i # j => results[i].rank # results[j].rank

\* the first country of the request is also its second, both are cache
\* hits, and the three entries of the response carry two ranks only
C37_RepeatedCountryRanks ==
    /\ Answered
    /\ request.countries[1] = request.countries[2]
    /\ Len(request.response.metadata.cache_hits) >= 2
    /\ request.response.metadata.cache_hits[1] = request.countries[1]
    /\ request.response.metadata.cache_hits[2] = request.countries[1]
    /\ Len(request.response.results) = 3
    /\ Cardinality(RanksOf(request.response.results)) = 2
    /\ 1 \notin RanksOf(request.response.results)

=============================================================================
